---- MODULE Spec2Model ----
(***************************************************************************)
(* Model of the kubearmor-client observer (package log, src/log/log.go)    *)
(* and of the port-forward helper it calls (package utils, same file).     *)
(*                                                                         *)
(* The specifications share the module's variables:                        *)
(*   Spec       one observation session: StartObserver, the watcher tasks, *)
(*              StopObserver and OS signals from the environment;          *)
(*   FairSpec   Spec with weak fairness of StartObserver and the watchers; *)
(*   SpecClose  callers of closeStopChan, line by line, alone or           *)
(*              interleaved;                                               *)
(*   SpecPort   one call of getLocalPort (with getRandomInt) on a host     *)
(*              where some ports are occupied.                             *)
(***************************************************************************)
EXTENDS Integers, Sequences, FiniteSets, TLC

\* ------------------------------------------------------------------ bounds
\* Largest quota (Options.Limit) a session is started with.
MaxLimit == 2
\* Matching records each alert/log stream can deliver.
MaxMatch == 2
\* Records the raw message stream can deliver.
MaxMsgs == 1
\* Goroutines that call closeStopChan in SpecClose.
MaxCallers == 3
\* Calls of closeStopChan each goroutine makes in SpecClose.
MaxCalls == 2

\* ------------------------------------------------------------------ values
\* The nil channel value of a Go channel variable.
Nil == "nil"
\* The channel an importer of package log may have stored in log.StopChan.
UserChan == "userChan"
\* The channel k8sPortForward makes for the forwarder (its local StopChan).
TunnelChan == "tunnelChan"
ChanIds == {UserChan, TunnelChan}

\* The seven filters, in the order regexCompile compiles them.
FilterIdx == 1..7
\* Watcher tasks.
QuotaWatchers == {"alerts", "logs"}
Watchers == QuotaWatchers \cup {"msgs"}

VARIABLES
    \* --- package log globals and channel heap
    StopChan,       \* log.StopChan: Nil or a channel id
    chanState,      \* channel id -> "unmade" | "open" | "closed"
    closes,         \* channel id -> number of successful close() calls
    panicked,       \* a goroutine panicked (close of nil / closed channel)
    \* --- SpecClose: callers of closeStopChan
    nCallers,       \* goroutines calling closeStopChan
    cpc,            \* caller -> "idle" | "l110" | "l113" | "l114"
    ccalls,         \* caller -> completed calls
    after,          \* snapshots <<StopChan, chanState>> taken at each return
    stopSet0,       \* log.StopChan was set when the first call began
    \* --- Spec: session configuration
    o,              \* Options
    envSet,         \* KUBEARMOR_SERVICE is set in the environment
    \* --- SpecPort: getLocalPort
    LocalPort,      \* pf.LocalPort: the preferred port
    occupied,       \* ports of 127.0.0.1 another process holds
    port,           \* getLocalPort's local: the candidate port
    ppc,            \* position of getLocalPort: "off" | "listen" | "close" | "rand" | "done"
    listener,       \* the probe listener: [port, state], state "none" | "open" | "closed" | "close_failed"
    bindFailed,     \* a bind probe of this call failed
    retPort,        \* getLocalPort's returned int64
    retErr,         \* getLocalPort's returned error: "none" (not returned) | "nil" | "close" | "rand"
    \* --- Spec: StartObserver
    pc,             \* position of StartObserver
    ret,            \* "none" | "nil" | "err": StartObserver's return value
    failure,        \* which early return was taken, "none" if none
    gRPC,           \* how the address was resolved
    forwarder,      \* tunnel forwarder goroutine: "none" | "running" | "closed"
    client,         \* log client handle: "none" | "live" | "destroyed"
    Running,        \* logClient.Running
    compiled,       \* the seven compiled-filter globals
    Limitchan,      \* [made, n]: made by make(chan bool, 2), n reports buffered
    received,       \* reports StartObserver has received from Limitchan
    unblockSignal,  \* the package flag StopObserver sets
    sigRegistered,  \* signal.Notify was called (GetOSSigChannel)
    sigChan,        \* signals buffered on sigChan (capacity 1)
    killed,         \* the process was ended by an unhandled signal
    \* --- Spec: watcher tasks
    wst,            \* watcher -> "idle" | "check" | "pull" | "exited"
    forwarded,      \* watcher -> records forwarded
    reports,        \* watcher -> reports sent on Limitchan
    matching,       \* watcher -> matching records left in its stream
    observed,       \* watcher -> it has seen Running = false
    errored,        \* watcher -> its pull ended on a transport error
    \* --- Spec: history
    hist            \* record of counters and flags over the session

closeVars == <<nCallers, cpc, ccalls, after, stopSet0>>
chanVars == <<StopChan, chanState, closes, panicked>>
portVars == <<LocalPort, occupied, port, ppc, listener, bindFailed, retPort, retErr>>
\* What no step of a session or of closeStopChan changes: the configuration,
\* and the state of getLocalPort, which SpecPort runs on its own.
cfgVars == <<o, envSet, portVars>>
ctlVars == <<pc, ret, failure, gRPC, forwarder, client, Running, compiled,
             Limitchan, received, unblockSignal, sigRegistered, sigChan, killed>>
watchVars == <<wst, forwarded, reports, matching, observed, errored>>
vars == <<closeVars, chanVars, cfgVars, ctlVars, watchVars, hist>>

\* ------------------------------------------------------ closeStopChan
\* log.go:110  if StopChan == nil { return }
StopChanIsNil(sc) == sc = Nil

\* close(ch): Go panics on a nil channel and on a closed channel.
ClosePanics(sc, cs) == sc = Nil \/ cs[sc] # "open"
CloseState(sc, cs) == IF ClosePanics(sc, cs) THEN cs ELSE [cs EXCEPT ![sc] = "closed"]
CloseCount(sc, cs, n) == IF ClosePanics(sc, cs) THEN n ELSE [n EXCEPT ![sc] = @ + 1]

\* log.go:114  StopChan = nil  (the faulty variant forgets the assignment)
AssignAfterClose_Keep(sc) == sc
AssignAfterClose(sc) == Nil

\* closeStopChan run to completion by one goroutine, nothing interleaved:
\* the new <<StopChan, chanState, closes, panicked>>.
closeStopChan(sc, cs, n, p) ==
    IF StopChanIsNil(sc) THEN <<sc, cs, n, p>>
    ELSE IF ClosePanics(sc, cs) THEN <<sc, cs, n, TRUE>>
    ELSE <<AssignAfterClose(sc), CloseState(sc, cs), CloseCount(sc, cs, n), p>>

Callers == 1..MaxCallers

\* ------------------------------------------------------- getLocalPort
\* log.go:59  the port StartObserver passes to InitiatePortForward
DefaultPort == 32767
\* log.go:363  port = n + 32768
FallbackBase == 32768
\* log.go:369  big.NewInt(32900-32768): the end of the range drawn from
FallbackEnd == 32900
\* log.go:353  return -1, err   (the listener could not be closed)
CloseFailValue == -1
\* log.go:371  return -1, errors.New(...)
RandFailValue == -1

\* log.go:369  rand.Int(rand.Reader, max) is uniform in [0, max)
\* (the faulty variant includes max)
RandomInts_Inclusive == 0..(FallbackEnd - FallbackBase)
RandomInts == 0..(FallbackEnd - FallbackBase - 1)

\* log.go:368-374  getRandomInt: the possible results <<n, err>>
getRandomInt ==
    {[n |-> RandFailValue, err |-> TRUE]} \cup {[n |-> k, err |-> FALSE] : k \in RandomInts}

\* log.go:363  the candidate made from a draw
FallbackPort(n) == n + FallbackBase
FallbackRange == {FallbackPort(n) : n \in RandomInts}

\* log.go:349  net.Listen("tcp", "127.0.0.1:<port>") succeeds on a port no
\* other process holds (the faulty variant does not probe)
ListenSucceeds_Always(p, occ) == TRUE
ListenSucceeds(p, occ) == p \notin occ

NoListener == [port |-> 0, state |-> "none"]

\* Preferred ports a caller of InitiatePortForward passes: the default, one
\* inside the fallback range and one far from it.
PreferredPorts == {DefaultPort, FallbackBase + 32, 8080}
\* Hosts: nothing occupied; the preferred port occupied; also the first
\* fallback port; all of the range but its last port; everything; and the
\* range occupied with the preferred port free.
OccupiedSets(p) ==
    { {}, {p}, {p, FallbackBase},
      {p} \cup (FallbackRange \ {FallbackEnd - 1}),
      {p} \cup FallbackRange,
      FallbackRange \ {p} }

portIdle ==
    /\ LocalPort = DefaultPort /\ occupied = {} /\ port = DefaultPort /\ ppc = "off"
    /\ listener = NoListener /\ bindFailed = FALSE /\ retPort = 0 /\ retErr = "none"

\* History of one session: what was ever started or called, and when.
hist0 ==
    [launched |-> {},          \* watchers ever started
     pfTried |-> FALSE,        \* InitiatePortForward was called
     healthChecks |-> 0,       \* calls of DoHealthCheck
     compileCalls |-> 0,       \* calls of regexCompile
     releaseCalls |-> 0,       \* calls of closeStopChan by StartObserver
     destroyCalls |-> 0,       \* calls of DestroyClient
     sigSent |-> FALSE,        \* the environment sent a signal
     sigRunning |-> FALSE,     \* a signal arrived while StartObserver was waiting
     stopCalled |-> FALSE,     \* StopObserver was called
     sleepsAfterSig |-> 0,     \* poll sleeps begun with a signal already buffered
     lateForward |-> FALSE]    \* a watcher forwarded after observing cancellation

sessionIdle ==
    /\ o = [GRPC |-> "", MsgPath |-> "none", LogPath |-> "none", LogFilter |-> "all",
            Limit |-> 0, bad |-> {}]
    /\ envSet = FALSE
    /\ pc = "off" /\ ret = "none" /\ failure = "none" /\ gRPC = ""
    /\ forwarder = "none" /\ client = "none" /\ Running = FALSE
    /\ compiled = [i \in FilterIdx |-> "nil"]
    /\ Limitchan = [made |-> FALSE, n |-> 0] /\ received = 0
    /\ unblockSignal = FALSE /\ sigRegistered = FALSE /\ sigChan = 0 /\ killed = FALSE
    /\ wst = [w \in Watchers |-> "idle"]
    /\ forwarded = [w \in Watchers |-> 0]
    /\ reports = [w \in Watchers |-> 0]
    /\ matching = [w \in Watchers |-> 0]
    /\ observed = [w \in Watchers |-> FALSE]
    /\ errored = [w \in Watchers |-> FALSE]
    /\ hist = hist0

InitClose ==
    /\ StopChan \in {Nil, UserChan}
    /\ chanState = [c \in ChanIds |-> IF c = UserChan THEN "open" ELSE "unmade"]
    /\ closes = [c \in ChanIds |-> 0]
    /\ panicked = FALSE
    /\ nCallers \in 1..MaxCallers
    /\ cpc = [p \in Callers |-> "idle"]
    /\ ccalls = [p \in Callers |-> 0]
    /\ after = <<>>
    /\ stopSet0 = (StopChan # Nil)
    /\ sessionIdle
    /\ portIdle

sessionVars == <<cfgVars, ctlVars, watchVars, hist>>

\* A goroutine enters closeStopChan.
CallClose(p) ==
    /\ p <= nCallers /\ ~panicked
    /\ cpc[p] = "idle" /\ ccalls[p] < MaxCalls
    /\ cpc' = [cpc EXCEPT ![p] = "l110"]
    /\ UNCHANGED <<nCallers, ccalls, after, stopSet0, chanVars, sessionVars>>

\* log.go:110-112
CloseCheck(p) ==
    /\ p <= nCallers /\ ~panicked
    /\ cpc[p] = "l110"
    /\ IF StopChanIsNil(StopChan)
       THEN /\ cpc' = [cpc EXCEPT ![p] = "idle"]
            /\ ccalls' = [ccalls EXCEPT ![p] = @ + 1]
            /\ after' = Append(after, <<StopChan, chanState>>)
       ELSE /\ cpc' = [cpc EXCEPT ![p] = "l113"]
            /\ UNCHANGED <<ccalls, after>>
    /\ UNCHANGED <<nCallers, stopSet0, chanVars, sessionVars>>

\* log.go:113  close(StopChan): reads the global again
CloseClose(p) ==
    /\ p <= nCallers /\ ~panicked
    /\ cpc[p] = "l113"
    /\ panicked' = ClosePanics(StopChan, chanState)
    /\ chanState' = CloseState(StopChan, chanState)
    /\ closes' = CloseCount(StopChan, chanState, closes)
    /\ cpc' = [cpc EXCEPT ![p] = IF panicked' THEN "l113" ELSE "l114"]
    /\ UNCHANGED <<StopChan, nCallers, ccalls, after, stopSet0, sessionVars>>

\* log.go:114-115  StopChan = nil; return
CloseAssign(p) ==
    /\ p <= nCallers /\ ~panicked
    /\ cpc[p] = "l114"
    /\ StopChan' = AssignAfterClose(StopChan)
    /\ cpc' = [cpc EXCEPT ![p] = "idle"]
    /\ ccalls' = [ccalls EXCEPT ![p] = @ + 1]
    /\ after' = Append(after, <<StopChan', chanState>>)
    /\ UNCHANGED <<chanState, closes, panicked, nCallers, stopSet0, sessionVars>>

NextClose ==
    \E p \in Callers : CallClose(p) \/ CloseCheck(p) \/ CloseClose(p) \/ CloseAssign(p)

SpecClose == InitClose /\ [][NextClose]_vars

\* ----------------------------------------------------------- SpecPort
nonPortVars == <<closeVars, chanVars, o, envSet, ctlVars, watchVars, hist>>

\* log.go:346-347  getLocalPort is entered: port := pf.LocalPort
InitPort ==
    /\ LocalPort \in PreferredPorts
    /\ occupied \in OccupiedSets(LocalPort)
    /\ port = LocalPort /\ ppc = "listen"
    /\ listener = NoListener /\ bindFailed = FALSE /\ retPort = 0 /\ retErr = "none"
    /\ StopChan = Nil
    /\ chanState = [c \in ChanIds |-> IF c = UserChan THEN "open" ELSE "unmade"]
    /\ closes = [c \in ChanIds |-> 0]
    /\ panicked = FALSE
    /\ nCallers = 0
    /\ cpc = [p \in Callers |-> "idle"]
    /\ ccalls = [p \in Callers |-> 0]
    /\ after = <<>>
    /\ stopSet0 = FALSE
    /\ sessionIdle

\* log.go:349-350  listener, err := net.Listen(...); if err == nil
PortListen ==
    /\ ppc = "listen"
    /\ IF ListenSucceeds(port, occupied)
       THEN /\ listener' = [port |-> port, state |-> "open"]
            /\ ppc' = "close"
            /\ UNCHANGED bindFailed
       ELSE /\ ppc' = "rand"
            /\ bindFailed' = TRUE
            /\ UNCHANGED listener
    /\ UNCHANGED <<LocalPort, occupied, port, retPort, retErr, nonPortVars>>

\* log.go:351-356  listener.Close(); return -1, err  or  return port, nil
PortClose ==
    /\ ppc = "close"
    /\ \E ok \in BOOLEAN :
         IF ok
         THEN /\ listener' = [listener EXCEPT !.state = "closed"]
              /\ retPort' = port /\ retErr' = "nil"
         ELSE /\ listener' = [listener EXCEPT !.state = "close_failed"]
              /\ retPort' = CloseFailValue /\ retErr' = "close"
    /\ ppc' = "done"
    /\ UNCHANGED <<LocalPort, occupied, port, bindFailed, nonPortVars>>

\* log.go:359-363  n, err := getRandomInt(); return n, err  or  port = n + 32768
PortRandom ==
    /\ ppc = "rand"
    /\ \E r \in getRandomInt :
         IF r.err
         THEN /\ retPort' = r.n /\ retErr' = "rand" /\ ppc' = "done"
              /\ UNCHANGED port
         ELSE /\ port' = FallbackPort(r.n) /\ ppc' = "listen"
              /\ UNCHANGED <<retPort, retErr>>
    /\ UNCHANGED <<LocalPort, occupied, listener, bindFailed, nonPortVars>>

NextPort == PortListen \/ PortClose \/ PortRandom

SpecPort == InitPort /\ [][NextPort]_vars

\* ------------------------------------------------------------ session
Modes == {"all", "policy", "system", "bogus"}
Paths == {"none", "stdout"}
\* Sets of filter positions whose pattern does not compile.
BadSets == {{}, {1}, {7}, {3, 5}}

\* The sessions explored. Every filter mode, quota and pattern set is run with
\* an explicit address; every way of resolving the address, and a stop channel
\* stored by the importer, is run with the modes that start at most one
\* alert/log watcher.
Explored(opts, env, sc) ==
    \/ opts.GRPC # "" /\ ~env /\ sc = Nil
    \/ opts.LogFilter \in {"policy", "bogus"} /\ Cardinality(opts.bad) <= 1

Init ==
    /\ o \in [GRPC : {"", "addr"}, MsgPath : Paths, LogPath : Paths, LogFilter : Modes,
              Limit : 0..MaxLimit, bad : BadSets]
    /\ envSet \in BOOLEAN
    /\ StopChan \in {Nil, UserChan}
    /\ Explored(o, envSet, StopChan)
    /\ chanState = [c \in ChanIds |-> IF c = UserChan THEN "open" ELSE "unmade"]
    /\ closes = [c \in ChanIds |-> 0]
    /\ panicked = FALSE
    /\ nCallers = 0
    /\ cpc = [p \in Callers |-> "idle"]
    /\ ccalls = [p \in Callers |-> 0]
    /\ after = <<>>
    /\ stopSet0 = (StopChan # Nil)
    /\ pc = "resolve" /\ ret = "none" /\ failure = "none" /\ gRPC = ""
    /\ forwarder = "none" /\ client = "none" /\ Running = FALSE
    /\ compiled = [i \in FilterIdx |-> "nil"]
    /\ Limitchan = [made |-> FALSE, n |-> 0] /\ received = 0
    /\ unblockSignal = FALSE
    /\ sigRegistered = FALSE /\ sigChan = 0 /\ killed = FALSE
    /\ wst = [w \in Watchers |-> "idle"]
    /\ forwarded = [w \in Watchers |-> 0]
    /\ reports = [w \in Watchers |-> 0]
    /\ matching = [w \in Watchers |-> IF w \in QuotaWatchers THEN MaxMatch ELSE MaxMsgs]
    /\ observed = [w \in Watchers |-> FALSE]
    /\ errored = [w \in Watchers |-> FALSE]
    /\ hist = hist0
    /\ portIdle

\* The process is alive (no unhandled signal, no panic).
Alive == ~killed /\ ~panicked
\* StartObserver has not returned.
InSession == pc \notin {"off", "returned", "stopped"}
\* StartObserver is in its wait (the coordinator's RUNNING state): blocked on
\* Limitchan, or in the polling loop with the signal channel registered.
WaitPcs == {"wait_gate", "poll_cond", "poll_sleep", "poll_select"}
ReleasePcs == {"release", "clear_running", "destroy", "stopped"}

\* StartObserver returns early with value r on failure f.
EarlyReturn(r, f) == pc' = "returned" /\ ret' = r /\ failure' = f

\* log.go:119-131  the remote address, by priority (the faulty variant looks at
\* the environment first)
AddrSource_EnvFirst(opts, env) ==
    IF env THEN "env" ELSE IF opts.GRPC # "" THEN "explicit" ELSE "pf"
AddrSource(opts, env) ==
    IF opts.GRPC # "" THEN "explicit" ELSE IF env THEN "env" ELSE "pf"

\* utils.InitiatePortForward (log.go:250-322): pod lookup, local port, tunnel.
\* k8sPortForward's StopChan is a local of package utils: log.StopChan is
\* not assigned.
PfOutcomes == {"pod_err", "port_err", "tunnel_err", "ready"}
ResolveAddr ==
    /\ Alive /\ pc = "resolve"
    /\ gRPC' = AddrSource(o, envSet)
    /\ IF gRPC' # "pf"
       THEN /\ pc' = "validate"
            /\ UNCHANGED <<ret, failure, forwarder, chanState, hist>>
       ELSE /\ hist' = [hist EXCEPT !.pfTried = TRUE]
            /\ \E out \in PfOutcomes :
                 IF out = "ready"
                 THEN /\ forwarder' = "running"
                      /\ chanState' = [chanState EXCEPT ![TunnelChan] = "open"]
                      /\ pc' = "validate"
                      /\ UNCHANGED <<ret, failure>>
                 ELSE /\ forwarder' = IF out = "tunnel_err" THEN "closed" ELSE "none"
                      /\ chanState' = [chanState EXCEPT ![TunnelChan] =
                                         IF out = "tunnel_err" THEN "open" ELSE @]
                      /\ EarlyReturn("err", "pf")
    /\ UNCHANGED <<closeVars, cfgVars, watchVars, StopChan, closes, panicked, client,
                   Running, compiled, Limitchan, received, unblockSignal, sigRegistered,
                   sigChan, killed>>

\* log.go:133-141  both destinations "none", then the filter mode
ConfigFailure(opts) ==
    IF opts.MsgPath = "none" /\ opts.LogPath = "none" THEN "both_none"
    ELSE IF opts.LogFilter \notin {"all", "policy", "system"} THEN "bad_mode"
    ELSE "none"
\* log.go:135, 140  return nil
ConfigFailureReturn == "nil"

Validate ==
    /\ Alive /\ pc = "validate"
    /\ IF ConfigFailure(o) # "none"
       THEN EarlyReturn(ConfigFailureReturn, ConfigFailure(o))
       ELSE pc' = "create" /\ UNCHANGED <<ret, failure>>
    /\ UNCHANGED <<closeVars, chanVars, cfgVars, watchVars, hist, gRPC, forwarder, client,
                   Running, compiled, Limitchan, received, unblockSignal, sigRegistered,
                   sigChan, killed>>

\* log.go:144-147  NewClient; a nil client is an error
CreateClient ==
    /\ Alive /\ pc = "create"
    /\ \E ok \in BOOLEAN :
         IF ok
         THEN /\ client' = "live" /\ Running' = TRUE /\ pc' = "health"
              /\ UNCHANGED <<ret, failure>>
         ELSE /\ EarlyReturn("err", "client")
              /\ UNCHANGED <<client, Running>>
    /\ UNCHANGED <<closeVars, chanVars, cfgVars, watchVars, hist, gRPC, forwarder,
                   compiled, Limitchan, received, unblockSignal, sigRegistered, sigChan,
                   killed>>

\* log.go:153  return after a failed liveness check (the faulty variant goes on)
HealthFailNext_GoOn == "msgs"
HealthFailNext == "returned"

\* log.go:152-155  DoHealthCheck, called once
HealthCheck ==
    /\ Alive /\ pc = "health"
    /\ hist' = [hist EXCEPT !.healthChecks = @ + 1]
    /\ \E ok \in BOOLEAN :
         IF ok
         THEN pc' = "msgs" /\ UNCHANGED <<ret, failure>>
         ELSE /\ pc' = HealthFailNext
              /\ ret' = "err" /\ failure' = "health"
    /\ UNCHANGED <<closeVars, chanVars, cfgVars, watchVars, gRPC, forwarder, client,
                   Running, compiled, Limitchan, received, unblockSignal, sigRegistered,
                   sigChan, killed>>

\* Start watcher tasks ws: each begins at its loop condition.
Started(ws) == [w \in Watchers |-> IF w \in ws THEN "check" ELSE wst[w]]

\* log.go:157-161  go logClient.WatchMessages
MsgWatchers(opts) == IF opts.MsgPath # "none" THEN {"msgs"} ELSE {}

StartMessages ==
    /\ Alive /\ pc = "msgs"
    /\ wst' = Started(MsgWatchers(o))
    /\ hist' = [hist EXCEPT !.launched = @ \cup MsgWatchers(o)]
    /\ pc' = "compile"
    /\ UNCHANGED <<closeVars, chanVars, cfgVars, forwarded, reports, matching,
                   observed, errored, ret, failure, gRPC, forwarder, client, Running,
                   compiled, Limitchan, received, unblockSignal, sigRegistered, sigChan,
                   killed>>

\* log.go:75-107  regexCompile: each global is assigned as it is compiled
\* (nil when its pattern fails), and the first error returns.
FirstBad(bad) == CHOOSE i \in bad : \A j \in bad : i <= j
regexCompileErr(opts) == opts.bad # {}
regexCompile(opts, C) ==
    IF opts.bad = {} THEN [i \in FilterIdx |-> "new"]
    ELSE [i \in FilterIdx |->
            IF i < FirstBad(opts.bad) THEN "new"
            ELSE IF i = FirstBad(opts.bad) THEN "nil" ELSE C[i]]

\* log.go:163-167
Compile ==
    /\ Alive /\ pc = "compile"
    /\ compiled' = regexCompile(o, compiled)
    /\ hist' = [hist EXCEPT !.compileCalls = @ + 1]
    /\ IF regexCompileErr(o)
       THEN EarlyReturn("err", "regex")
       ELSE pc' = "launch" /\ UNCHANGED <<ret, failure>>
    /\ UNCHANGED <<closeVars, chanVars, cfgVars, watchVars, gRPC, forwarder, client,
                   Running, Limitchan, received, unblockSignal, sigRegistered, sigChan,
                   killed>>

\* log.go:170-182  which alert/log watchers are started
LogWatchers(opts) ==
    IF opts.LogPath = "none" THEN {}
    ELSE (IF opts.LogFilter \in {"all", "policy"} THEN {"alerts"} ELSE {})
         \cup (IF opts.LogFilter \in {"all", "system"} THEN {"logs"} ELSE {})

\* log.go:169-184
Launch ==
    /\ Alive /\ pc = "launch"
    /\ Limitchan' = [made |-> TRUE, n |-> 0]
    /\ wst' = Started(LogWatchers(o))
    /\ hist' = [hist EXCEPT !.launched = @ \cup LogWatchers(o)]
    /\ pc' = IF o.Limit # 0 THEN "wait_gate" ELSE "poll_init"
    /\ UNCHANGED <<closeVars, chanVars, cfgVars, forwarded, reports, matching,
                   observed, errored, ret, failure, gRPC, forwarder, client, Running,
                   compiled, received, unblockSignal, sigRegistered, sigChan, killed>>

\* log.go:185-190  receives on Limitchan before release (the faulty variant waits for one)
RequiredReports_One(mode) == 1
RequiredReports(mode) == IF mode = "all" THEN 2 ELSE 1

\* log.go:186-189  <-Limitchan
WaitGate ==
    /\ Alive /\ pc = "wait_gate"
    /\ Limitchan.made /\ Limitchan.n > 0
    /\ Limitchan' = [Limitchan EXCEPT !.n = @ - 1]
    /\ received' = received + 1
    /\ pc' = IF received' >= RequiredReports(o.LogFilter) THEN "release" ELSE "wait_gate"
    /\ UNCHANGED <<closeVars, chanVars, cfgVars, watchVars, hist, ret, failure, gRPC,
                   forwarder, client, Running, compiled, unblockSignal, sigRegistered,
                   sigChan, killed>>

\* log.go:193-194  unblockSignal = false; sigChan = GetOSSigChannel()
PollInit ==
    /\ Alive /\ pc = "poll_init"
    /\ unblockSignal' = FALSE
    /\ sigRegistered' = TRUE
    /\ sigChan' = 0
    /\ pc' = "poll_cond"
    /\ UNCHANGED <<closeVars, chanVars, cfgVars, watchVars, hist, ret, failure, gRPC,
                   forwarder, client, Running, compiled, Limitchan, received, killed>>

\* log.go:195  for !unblockSignal
PollCond ==
    /\ Alive /\ pc = "poll_cond"
    /\ pc' = IF unblockSignal THEN "release" ELSE "poll_sleep"
    /\ UNCHANGED <<closeVars, chanVars, cfgVars, watchVars, hist, ret, failure, gRPC,
                   forwarder, client, Running, compiled, Limitchan, received,
                   unblockSignal, sigRegistered, sigChan, killed>>

\* log.go:196  time.Sleep(50 * time.Millisecond)
PollSleep ==
    /\ Alive /\ pc = "poll_sleep"
    /\ pc' = "poll_select"
    /\ hist' = [hist EXCEPT !.sleepsAfterSig = IF sigChan > 0 THEN @ + 1 ELSE @]
    /\ UNCHANGED <<closeVars, chanVars, cfgVars, watchVars, ret, failure, gRPC,
                   forwarder, client, Running, compiled, Limitchan, received,
                   unblockSignal, sigRegistered, sigChan, killed>>

\* log.go:197-201  select: the receive is taken when a signal is buffered
\* (the faulty variant may take the default case anyway)
SelectTakesSignal_Maybe(n) == IF n > 0 THEN {TRUE, FALSE} ELSE {FALSE}
SelectTakesSignal(n) == {n > 0}

PollSelect ==
    /\ Alive /\ pc = "poll_select"
    /\ \E take \in SelectTakesSignal(sigChan) :
         IF take
         THEN sigChan' = sigChan - 1 /\ unblockSignal' = TRUE
         ELSE UNCHANGED <<sigChan, unblockSignal>>
    /\ pc' = "poll_cond"
    /\ UNCHANGED <<closeVars, chanVars, cfgVars, watchVars, hist, ret, failure, gRPC,
                   forwarder, client, Running, compiled, Limitchan, received,
                   sigRegistered, killed>>

\* log.go:205-207  the statement after closeStopChan() is logClient.Running =
\* false (the faulty variant goes straight to DestroyClient)
AfterRelease_Destroy == "destroy"
AfterRelease == "clear_running"

\* log.go:204-205  closeStopChan()
Release ==
    /\ Alive /\ pc = "release"
    /\ LET r == closeStopChan(StopChan, chanState, closes, panicked)
       IN  StopChan' = r[1] /\ chanState' = r[2] /\ closes' = r[3] /\ panicked' = r[4]
    /\ hist' = [hist EXCEPT !.releaseCalls = @ + 1]
    /\ pc' = AfterRelease
    /\ UNCHANGED <<closeVars, cfgVars, watchVars, ret, failure, gRPC, forwarder, client,
                   Running, compiled, Limitchan, received, unblockSignal, sigRegistered,
                   sigChan, killed>>

\* log.go:207  logClient.Running = false
ClearRunning ==
    /\ Alive /\ pc = "clear_running"
    /\ Running' = FALSE
    /\ pc' = "destroy"
    /\ UNCHANGED <<closeVars, chanVars, cfgVars, watchVars, hist, ret, failure, gRPC,
                   forwarder, client, compiled, Limitchan, received, unblockSignal,
                   sigRegistered, sigChan, killed>>

\* log.go:210  return logClient.DestroyClient()
Destroy ==
    /\ Alive /\ pc = "destroy"
    /\ client' = "destroyed"
    /\ hist' = [hist EXCEPT !.destroyCalls = @ + 1]
    /\ pc' = "stopped"
    /\ ret' \in {"nil", "err"}
    /\ UNCHANGED <<closeVars, chanVars, cfgVars, watchVars, failure, gRPC, forwarder,
                   Running, compiled, Limitchan, received, unblockSignal, sigRegistered,
                   sigChan, killed>>

ControllerStep ==
    \/ ResolveAddr \/ Validate \/ CreateClient \/ HealthCheck \/ StartMessages
    \/ Compile \/ Launch \/ WaitGate \/ PollInit \/ PollCond \/ PollSleep \/ PollSelect
    \/ Release \/ ClearRunning \/ Destroy

\* ------------------------------------------------------------ watchers
\* The watcher tasks are followed until StartObserver returns.
\* log.go:169  make(chan bool, 2)
LimitchanCap == 2

\* The watcher's loop condition: it goes on while the client is Running and
\* exits once it observes the flag cleared.
WatcherCheck(w) ==
    /\ Alive /\ InSession /\ wst[w] = "check"
    /\ IF Running
       THEN wst' = [wst EXCEPT ![w] = "pull"] /\ UNCHANGED observed
       ELSE /\ wst' = [wst EXCEPT ![w] = "exited"]
            /\ observed' = [observed EXCEPT ![w] = TRUE]
    /\ UNCHANGED <<closeVars, chanVars, cfgVars, ctlVars, hist, forwarded, reports,
                   matching, errored>>

\* A watcher with a quota has used it up after n forwarded records.
QuotaReached(w, n) == w \in QuotaWatchers /\ o.Limit # 0 /\ n = o.Limit
\* What a watcher does after reporting (the faulty variant keeps pulling).
AfterReport_KeepPulling == "check"
AfterReport == "exited"

\* The pull yields a record that passes all seven filters: it is forwarded,
\* and a watcher whose quota is used up reports once on Limitchan and exits.
WatcherForward(w) ==
    /\ Alive /\ InSession /\ wst[w] = "pull" /\ matching[w] > 0
    /\ matching' = [matching EXCEPT ![w] = @ - 1]
    /\ forwarded' = [forwarded EXCEPT ![w] = @ + 1]
    /\ hist' = [hist EXCEPT !.lateForward = @ \/ observed[w]]
    /\ IF QuotaReached(w, forwarded'[w])
       THEN /\ Limitchan.made /\ Limitchan.n < LimitchanCap
            /\ Limitchan' = [Limitchan EXCEPT !.n = @ + 1]
            /\ reports' = [reports EXCEPT ![w] = @ + 1]
            /\ wst' = [wst EXCEPT ![w] = AfterReport]
       ELSE /\ wst' = [wst EXCEPT ![w] = "check"]
            /\ UNCHANGED <<Limitchan, reports>>
    /\ UNCHANGED <<closeVars, chanVars, cfgVars, observed, errored, pc, ret,
                   failure, gRPC, forwarder, client, Running, compiled, received,
                   unblockSignal, sigRegistered, sigChan, killed>>

\* The pull yields a record that fails a filter: dropped, no side effect.
\* (The message watcher applies no filter: the filters are compiled after it
\* is started, log.go:159-163.)
WatcherDrop(w) ==
    /\ Alive /\ InSession /\ wst[w] = "pull" /\ w \in QuotaWatchers
    /\ wst' = [wst EXCEPT ![w] = "check"]
    /\ UNCHANGED <<closeVars, chanVars, cfgVars, ctlVars, hist, forwarded, reports,
                   matching, observed, errored>>

\* The pull ends on a transport error: the loop ends, nothing is retried.
WatcherError(w) ==
    /\ Alive /\ InSession /\ wst[w] = "pull"
    /\ wst' = [wst EXCEPT ![w] = "exited"]
    /\ errored' = [errored EXCEPT ![w] = TRUE]
    /\ UNCHANGED <<closeVars, chanVars, cfgVars, ctlVars, hist, forwarded, reports,
                   matching, observed>>

WatcherProgress(w) == WatcherCheck(w) \/ WatcherForward(w) \/ WatcherDrop(w)

\* --------------------------------------------------------- environment
\* An OS signal. After signal.Notify it is buffered on sigChan (capacity 1,
\* log.go:63; a signal that finds the buffer full is dropped); before, the Go
\* runtime's default disposition ends the process.
EnvSignal ==
    /\ Alive /\ InSession
    /\ hist' = [hist EXCEPT !.sigSent = TRUE, !.sigRunning = @ \/ (pc \in WaitPcs)]
    /\ IF sigRegistered
       THEN sigChan' = 1 /\ UNCHANGED killed
       ELSE killed' = TRUE /\ UNCHANGED sigChan
    /\ UNCHANGED <<closeVars, chanVars, cfgVars, watchVars, pc, ret, failure, gRPC,
                   forwarder, client, Running, compiled, Limitchan, received,
                   unblockSignal, sigRegistered>>

\* log.go:214-216  StopObserver, called by another goroutine: it sets the flag
\* and nothing else (the faulty variant also runs the release path itself)
StopObserver_AlsoReleases ==
    /\ Alive /\ InSession
    /\ unblockSignal' = TRUE
    /\ LET r == closeStopChan(StopChan, chanState, closes, panicked)
       IN  StopChan' = r[1] /\ chanState' = r[2] /\ closes' = r[3] /\ panicked' = r[4]
    /\ hist' = [hist EXCEPT !.stopCalled = TRUE, !.releaseCalls = @ + 1]
    /\ UNCHANGED <<closeVars, cfgVars, watchVars, pc, ret, failure, gRPC,
                   forwarder, client, Running, compiled, Limitchan, received,
                   sigRegistered, sigChan, killed>>
StopObserver ==
    /\ Alive /\ InSession
    /\ unblockSignal' = TRUE
    /\ hist' = [hist EXCEPT !.stopCalled = TRUE]
    /\ UNCHANGED <<closeVars, chanVars, cfgVars, watchVars, pc, ret, failure, gRPC,
                   forwarder, client, Running, compiled, Limitchan, received,
                   sigRegistered, sigChan, killed>>

Next ==
    \/ ControllerStep
    \/ \E w \in Watchers : WatcherProgress(w) \/ WatcherError(w)
    \/ EnvSignal
    \/ StopObserver

Spec == Init /\ [][Next]_vars

\* The Go scheduler runs every runnable goroutine: StartObserver and each
\* watcher take their next step when one is possible.
FairSpec ==
    /\ Spec
    /\ WF_vars(ControllerStep)
    /\ \A w \in Watchers : WF_vars(WatcherProgress(w))

\* A step of the program itself: StartObserver or a watcher that is not
\* failing (no signal, no StopObserver call, no transport error).
ProgramStep == ControllerStep \/ \E w \in Watchers : WatcherProgress(w)

\* ------------------------------------------------------------- claims

\* C1: with a bounded quota, StartObserver begins release only after it has
\* received 2 reports from Limitchan in mode "all" and 1 report in mode
\* "policy" or "system", never after fewer; what it received was sent by a
\* watcher.
C1_ReleaseAfterRequiredReports ==
    /\ (o.Limit # 0 /\ pc \in ReleasePcs) =>
           received = (IF o.LogFilter = "all" THEN 2 ELSE 1)
    /\ received + Limitchan.n = reports["alerts"] + reports["logs"]

C1_Witness ==
    /\ o.Limit # 0 /\ o.LogFilter = "all" /\ pc = "stopped" /\ received = 2

\* C2: with quota N > 0 a watcher never forwards more than N records, reports
\* on Limitchan at most once, reports only when it has forwarded exactly N,
\* and a watcher that ended without a transport error and without seeing the
\* session cancelled has forwarded exactly N and reported exactly once.
C2_QuotaForwardAndReportOnce ==
    \A w \in QuotaWatchers :
        /\ reports[w] <= 1
        /\ o.Limit = 0 => reports[w] = 0
        /\ o.Limit # 0 => forwarded[w] <= o.Limit
        /\ (o.Limit # 0 /\ reports[w] = 1) => (forwarded[w] = o.Limit /\ wst[w] = "exited")
        /\ (o.Limit # 0 /\ wst[w] = "exited" /\ ~errored[w] /\ ~observed[w]) =>
               (forwarded[w] = o.Limit /\ reports[w] = 1)
        /\ (o.Limit # 0 /\ wst[w] \in {"check", "pull"}) => forwarded[w] < o.Limit

C2_Witness ==
    /\ o.Limit > 1 /\ o.LogFilter = "all"
    /\ \A w \in QuotaWatchers : forwarded[w] = o.Limit /\ reports[w] = 1 /\ matching[w] = 0

\* C3: a bounded-quota session whose streams hold enough matching records and
\* suffer no transport error reaches STOPPED with no signal and no
\* StopObserver call: while StartObserver waits, the program can take a step.
C3_BoundedQuotaStops ==
    (/\ o.Limit # 0 /\ o.Limit <= MaxMatch
     /\ pc \in WaitPcs /\ Alive
     /\ \A w \in Watchers : ~errored[w])
        => ENABLED ProgramStep

\* C4: in every configuration a signal received while StartObserver waits
\* moves the session to STOPPING and STOPPED: the process is not ended with
\* the release path and DestroyClient not run.
C4_SignalStopsSession ==
    hist.sigRunning =>
        /\ ~killed
        /\ (~ENABLED ControllerStep) =>
               (pc = "stopped" /\ hist.releaseCalls = 1 /\ hist.destroyCalls = 1)

\* C5: with quota 0 StartObserver never receives from Limitchan; once a signal
\* is buffered on sigChan at most one more 50 ms sleep begins and StartObserver
\* can always take its next step until it is STOPPED, so it stops within one
\* iteration; no watcher forwards a record after it observed Running cleared
\* (it has exited).
C5_UnboundedSignalStops ==
    /\ o.Limit = 0 => (received = 0 /\ pc # "wait_gate")
    /\ o.Limit = 0 => hist.sleepsAfterSig <= 1
    /\ (o.Limit = 0 /\ sigChan > 0 /\ pc # "stopped") => ENABLED ControllerStep
    /\ ~hist.lateForward
    /\ \A w \in Watchers : observed[w] => wst[w] = "exited"

\* The same as a temporal property of FairSpec: a buffered signal leads to
\* STOPPED.
C5_SignalLeadsToStopped == (o.Limit = 0 /\ sigChan > 0) ~> (pc = "stopped")

C5_Witness ==
    /\ o.Limit = 0 /\ pc = "stopped" /\ hist.sigSent /\ ~hist.stopCalled
    /\ hist.sleepsAfterSig = 1
    /\ \E w \in Watchers : observed[w] /\ forwarded[w] > 0

\* C6: when a filter pattern is invalid StartObserver returns the error and no
\* watcher of any category was ever started.
C6_InvalidFilterStartsNothing ==
    failure = "regex" => (ret = "err" /\ hist.launched = {})

\* C7: when the liveness check fails StartObserver returns an error after one
\* check, with no watcher ever started and no filter compiled.
C7_HealthFailureAborts ==
    failure = "health" =>
        /\ pc = "returned" /\ ret = "err"
        /\ hist.healthChecks = 1
        /\ hist.launched = {}
        /\ hist.compileCalls = 0
        /\ \A i \in FilterIdx : compiled[i] = "nil"

C7_Witness ==
    /\ failure = "health" /\ pc = "returned"
    /\ o.MsgPath # "none" /\ o.LogPath # "none" /\ o.bad # {}

\* C8: when StartObserver ends on a configuration or startup failure it returns
\* an error and leaves no forwarder task, no live client and no watcher.
C8_FailureLeavesNothing ==
    (pc = "returned" /\ failure \in {"both_none", "bad_mode", "client", "health", "regex"}) =>
        /\ ret = "err"
        /\ forwarder # "running"
        /\ client # "live"
        /\ \A w \in Watchers : wst[w] \in {"idle", "exited"}

\* C9: one goroutine calling closeStopChan repeatedly: no call panics, no
\* channel is closed twice, and the state after every later call is the state
\* after the first (StopChan nil), whether or not StopChan was set.
C9_RepeatedCloseIdempotent ==
    nCallers = 1 =>
        /\ ~panicked
        /\ \A c \in ChanIds : closes[c] <= 1
        /\ \A i \in 1..Len(after) : after[i] = after[1] /\ after[i][1] = Nil
        /\ (Len(after) >= 1 /\ stopSet0) => closes[UserChan] = 1

C9_Witness ==
    /\ nCallers = 1 /\ stopSet0 /\ Len(after) = 2 /\ closes[UserChan] = 1
    /\ chanState[UserChan] = "closed"

\* C10: two or more goroutines calling closeStopChan on a set stop channel, in
\* any interleaving: no call closes a closed (or nil) channel, the channel is
\* closed once, and every call returns.
C10_ConcurrentCloseOnce ==
    (nCallers >= 2 /\ stopSet0) =>
        /\ ~panicked
        /\ closes[UserChan] <= 1
        /\ (\A p \in 1..nCallers : cpc[p] = "idle" /\ ccalls[p] >= 1) => closes[UserChan] = 1

\* C11: in an unbounded-quota session in which StopObserver was called and a
\* signal arrived while StartObserver was polling, in any order and
\* interleaving: the process is not ended, the release path and DestroyClient
\* are each run at most once and exactly once when StartObserver has returned,
\* and StartObserver can always take its next step until it has returned, with
\* at most one more sleep after the signal was buffered.
C11_StopAndSignalCoalesce ==
    (o.Limit = 0 /\ hist.stopCalled /\ hist.sigRunning) =>
        /\ Alive
        /\ hist.releaseCalls <= 1 /\ hist.destroyCalls <= 1
        /\ hist.releaseCalls = (IF pc \in ReleasePcs \ {"release"} THEN 1 ELSE 0)
        /\ hist.destroyCalls = (IF pc = "stopped" THEN 1 ELSE 0)
        /\ pc # "stopped" => ENABLED ControllerStep
        /\ hist.sleepsAfterSig <= 1
        /\ pc \in WaitPcs \cup ReleasePcs

\* Both requests were pending at once: the flag was set by StopObserver and the
\* signal stayed buffered when StartObserver returned.
C11_Witness ==
    /\ o.Limit = 0 /\ pc = "stopped" /\ hist.stopCalled /\ hist.sigRunning
    /\ sigChan = 1 /\ unblockSignal
    /\ hist.releaseCalls = 1 /\ hist.destroyCalls = 1

\* C12: after a watcher's pull loop ended on a transport error the session is
\* not crashed and the client stays Running while StartObserver waits; and
\* once every other started watcher has finished, or a signal has arrived
\* during the wait, StartObserver is alive and can take its next step towards
\* release and DestroyClient (it is not left waiting for the failed watcher).
C12_ErrorStillShutsDown ==
    ((\E w \in Watchers : errored[w]) /\ pc \in WaitPcs) =>
        /\ ~panicked /\ Running
        /\ ((\A v \in hist.launched : wst[v] = "exited") \/ hist.sigRunning) =>
               (Alive /\ ENABLED ControllerStep)

\* The same for unbounded-quota sessions only.
C12_UnboundedOnly == o.Limit = 0 => C12_ErrorStillShutsDown

\* C13: once the address is resolved it is the explicit option when that is
\* non-empty, else the KUBEARMOR_SERVICE value when the variable is set, else
\* the local end of the tunnel; InitiatePortForward (pod lookup, port probe,
\* tunnel) was called in the third case and only then.
C13_AddressPriority ==
    pc # "resolve" =>
        /\ o.GRPC # "" => gRPC = "explicit"
        /\ (o.GRPC = "" /\ envSet) => gRPC = "env"
        /\ (o.GRPC = "" /\ ~envSet) => gRPC = "pf"
        /\ hist.pfTried <=> (o.GRPC = "" /\ ~envSet)
        /\ (forwarder # "none" \/ chanState[TunnelChan] # "unmade" \/ failure = "pf")
               => (o.GRPC = "" /\ ~envSet)

\* Both the option and the environment variable are set: the option wins and
\* no tunnel is tried.
C13_Witness ==
    /\ pc = "stopped" /\ o.GRPC # "" /\ envSet /\ gRPC = "explicit"
    /\ ~hist.pfTried /\ forwarder = "none"

\* C14: a call of getLocalPort that returns without error returns the
\* preferred port when that port is free, and when the preferred port (32767
\* in particular) is occupied a different port of 32768..32899, the draw
\* 0..131 added to 32768; every candidate it probes is the preferred port or
\* lies in that range, and after a failed bind every free port of the range
\* can be the next candidate.
C14_PortInRange ==
    /\ port \in {LocalPort} \cup 32768..32899
    /\ port # LocalPort => port - 32768 \in 0..131
    /\ Cardinality(FallbackRange) = 132
    /\ retErr = "nil" =>
          /\ retPort \in {LocalPort} \cup 32768..32899
          /\ LocalPort \notin occupied => retPort = LocalPort
          /\ LocalPort \in occupied => (retPort # LocalPort /\ retPort \in 32768..32899)
    /\ ppc = "rand" =>
          \A q \in (32768..32899) \ occupied : ENABLED (PortRandom /\ port' = q)

\* Port 32767 is occupied and so is all of the range but its last port: the
\* call returns 32899.
C14_Witness ==
    /\ LocalPort = 32767 /\ 32767 \in occupied /\ 32768 \in occupied
    /\ ppc = "done" /\ retErr = "nil" /\ retPort = 32899

\* C17: getLocalPort returns a port only when the last bind probe was at that
\* port, succeeded (the port is not occupied) and its listener was closed; after
\* a failed bind it can always draw again, whatever happened before, and any
\* value of 0..131 can be drawn; while the preferred port and the whole range
\* are occupied it returns no port; a failed draw or a failed close returns
\* -1 with the error.
C17_ProbeBeforeReturn ==
    /\ retErr = "nil" =>
          /\ listener = [port |-> retPort, state |-> "closed"]
          /\ retPort \notin occupied
    /\ ppc = "done" <=> retErr # "none"
    /\ retErr = "close" => (retPort = -1 /\ listener.state = "close_failed")
    /\ retErr = "rand" => (retPort = -1 /\ bindFailed /\ listener.state = "none")
    /\ ppc = "rand" =>
          /\ bindFailed
          /\ \A n \in 0..131 : ENABLED (PortRandom /\ ppc' = "listen" /\ port' = 32768 + n)
    /\ ppc # "done" => ENABLED NextPort
    /\ (({LocalPort} \cup 32768..32899) \subseteq occupied) => retErr \in {"none", "rand"}

\* Every candidate is occupied; the call retried and ended on a failed draw.
C17_Witness ==
    /\ ({LocalPort} \cup 32768..32899) \subseteq occupied
    /\ port # LocalPort /\ bindFailed
    /\ ppc = "done" /\ retErr = "rand" /\ retPort = -1

\* C15: a call of regexCompile with all seven patterns valid replaces all seven
\* compiled-filter variables; a call with an invalid pattern returns the error
\* and leaves every one of the seven as it was before the call (nil, in a
\* process that has compiled nothing before).
C15_CompileAllOrNothing ==
    hist.compileCalls = 1 =>
        /\ o.bad = {} => \A i \in FilterIdx : compiled[i] = "new"
        /\ o.bad # {} =>
              /\ failure = "regex" /\ ret = "err"
              /\ \A i \in FilterIdx : compiled[i] = "nil"

\* C16: every step of a session keeps the shutdown in order. StartObserver
\* leaves its wait only into the release path; closeStopChan has been called
\* once exactly from the moment Running is about to be cleared, with the stop
\* channel nil and a stored channel closed once; Running is cleared before
\* DestroyClient, which has been called once exactly when StartObserver has
\* stopped; the release path only moves forward, never back to the wait, and
\* no watcher is started after it began.
C16_ShutdownOrdered ==
    [][/\ pc \in WaitPcs => pc' \in WaitPcs \cup {"release"}
       /\ pc = "release" => pc' \in {"release", "clear_running"}
       /\ pc = "clear_running" => pc' \in {"clear_running", "destroy"}
       /\ pc = "destroy" => pc' \in {"destroy", "stopped"}
       /\ pc = "stopped" => pc' = "stopped"
       /\ hist'.releaseCalls = (IF pc' \in {"clear_running", "destroy", "stopped"} THEN 1 ELSE 0)
       /\ hist'.destroyCalls = (IF pc' = "stopped" THEN 1 ELSE 0)
       /\ pc' \in {"clear_running", "destroy", "stopped"} =>
             /\ StopChan' = Nil
             /\ closes'[UserChan] = (IF stopSet0 THEN 1 ELSE 0)
       /\ pc' \in {"release", "clear_running"} => (Running' /\ client' = "live")
       /\ pc' = "destroy" => (~Running' /\ client' = "live")
       /\ pc' = "stopped" => (~Running' /\ client' = "destroyed")
       /\ pc \in ReleasePcs =>
             /\ hist'.launched = hist.launched
             /\ \A w \in Watchers : wst[w] = "idle" => wst'[w] = "idle"
      ]_vars

\* A session that stored a stop channel has stopped: the channel was closed
\* once, Running is cleared, the client destroyed.
C16_Witness ==
    /\ pc = "stopped" /\ stopSet0 /\ closes[UserChan] = 1 /\ StopChan = Nil
    /\ ~Running /\ client = "destroyed"
    /\ hist.releaseCalls = 1 /\ hist.destroyCalls = 1

\* C18: when StartObserver waits on Limitchan, the number of reports it
\* requires is the number of alert/log watchers it started; with nothing
\* started for alerts and logs (LogPath "none") it does not wait there at all.
C18_WaitMatchesLaunched ==
    /\ pc = "wait_gate" =>
          RequiredReports(o.LogFilter) = Cardinality(hist.launched \cap QuotaWatchers)
    /\ (o.Limit # 0 /\ o.LogPath = "none") => pc # "wait_gate"

\* The same for sessions with a log destination.
C18_WithLogPath == o.LogPath # "none" => C18_WaitMatchesLaunched

\* C19: once StopObserver has been called in a session, StartObserver does not
\* stay in its wait: in the polling loop the flag is (still) set, so the loop
\* ends at its next test, and on the completion gate StartObserver can take
\* its next step.
C19_StopNeverLost ==
    (hist.stopCalled /\ pc \in WaitPcs) =>
        /\ o.Limit = 0 => unblockSignal
        /\ o.Limit # 0 => ENABLED ControllerStep

\* A flag set while the polling loop runs stays set until the loop has ended.
C19_FlagKeptInLoop ==
    [][(pc \in WaitPcs /\ unblockSignal /\ pc' \in WaitPcs) => unblockSignal']_vars

\* C20: in a session that reached its address through the tunnel, log.StopChan
\* is the channel the forwarder was given while the session waits, and when
\* StartObserver has stopped that channel is closed and the forwarder is no
\* longer running.
C20_TunnelStopChanClosed ==
    gRPC = "pf" =>
        /\ pc \in WaitPcs => StopChan = TunnelChan
        /\ pc = "stopped" => (chanState[TunnelChan] = "closed" /\ forwarder # "running")

====
